---- MODULE Spec2Model ----
(***************************************************************************)
(* Model of app.py of the weather-prediction repository: fetch_weather,    *)
(* analyze_conditions and the "Check Weather Probability" script run.      *)
(*                                                                         *)
(* Numbers.  The values of a record are integers; means, percentages and    *)
(* the comfort index are exact rationals [num, den] in lowest terms (den   *)
(* > 0), so the arithmetic of the code is followed without the rounding of *)
(* binary floating point.  0.3 and 1.5 are the rationals 3/10 and 15/10.   *)
(*                                                                         *)
(* Frames.  A DataFrame is [cols |-> set of column names, rows |-> the     *)
(* sequence of its rows], a row being a function from column name to       *)
(* value.  pd.DataFrame() is the frame with no column and no row.          *)
(***************************************************************************)
EXTENDS Integers, Sequences, FiniteSets, TLC

VARIABLES
    world,    \* what the NASA POWER service answers for the location
    cache,    \* the st.cache_data store of fetch_weather
    df,       \* the caller's DataFrame (the object analyze_conditions is given)
    args,     \* the date picked and the five thresholds
    subset,   \* the local `subset` of the last analyze_conditions call
    ret,      \* what the last analyze_conditions call returned or raised
    ui,       \* the elements the page shows
    pc,       \* where the last script run ended
    op        \* the last function called

vars == <<world, cache, df, args, subset, ret, ui, pc, op>>

---------------------------------------------------------------------------
(* Bounds of the model *)

\* the most records a served TimeSeries holds
MaxRows == 3

---------------------------------------------------------------------------
(* Rational arithmetic *)

Abs(x) == IF x < 0 THEN -x ELSE x

RECURSIVE GCD(_, _)
GCD(a, b) == IF b = 0 THEN a ELSE GCD(b, a % b)

\* n/d in lowest terms, d > 0
Rat(n, d) ==
    LET g == GCD(Abs(n), d)
    IN  [num |-> n \div g, den |-> d \div g]

RInt(n) == Rat(n, 1)
RAdd(x, y) == Rat(x.num * y.den + y.num * x.den, x.den * y.den)
RSub(x, y) == Rat(x.num * y.den - y.num * x.den, x.den * y.den)
RMul(x, y) == Rat(x.num * y.num, x.den * y.den)
RAbs(x) == [num |-> Abs(x.num), den |-> x.den]
RLt(x, y) == x.num * y.den < y.num * x.den
RLe(x, y) == x.num * y.den <= y.num * x.den

\* Python's min(a, b) and max(a, b): the first argument unless the second is
\* strictly smaller (larger)
PyMin(a, b) == IF RLt(b, a) THEN b ELSE a
PyMax(a, b) == IF RLt(a, b) THEN b ELSE a

RECURSIVE SumSeq(_)
SumSeq(s) == IF s = <<>> THEN 0 ELSE Head(s) + SumSeq(Tail(s))

\* Series.mean() of a non-empty numeric Series
Mean(s) == Rat(SumSeq(s), Len(s))

\* Series.mean() of a boolean Series: True counts 1, False 0
BoolMean(s) == Mean([i \in 1..Len(s) |-> IF s[i] THEN 1 ELSE 0])

---------------------------------------------------------------------------
(* Frames *)

None == [py |-> "None"]

\* pd.DataFrame()
EmptyFrame == [cols |-> {}, rows |-> <<>>]

\* DataFrame.empty: an axis of length 0
IsEmpty(f) == f.cols = {} \/ Len(f.rows) = 0

\* df[c], a Series
Column(f, c) == [i \in 1..Len(f.rows) |-> f.rows[i][c]]

\* df[c] = s
SetColumn(f, c, s) ==
    [cols |-> f.cols \cup {c},
     rows |-> [i \in 1..Len(f.rows) |->
                 [k \in f.cols \cup {c} |-> IF k = c THEN s[i] ELSE f.rows[i][k]]]]

\* df[mask]: the rows whose mask is True, in the order of df
RECURSIVE Keep(_, _)
Keep(rows, mask) ==
    IF rows = <<>> THEN <<>>
    ELSE IF Head(mask) THEN <<Head(rows)>> \o Keep(Tail(rows), Tail(mask))
         ELSE Keep(Tail(rows), Tail(mask))

Where(f, mask) == [cols |-> f.cols, rows |-> Keep(f.rows, mask)]

---------------------------------------------------------------------------
(* The Climate Record Source *)

\* the years served: a window of the 1985..2023 the code asks for, holding
\* one leap year
Years == {1987, 1988, 1989}

IsLeap(y) == (y % 4 = 0 /\ y % 100 # 0) \/ y % 400 = 0

\* the keys of the payload, YYYYMMDD: the model keeps Jul 4 of each year,
\* Feb 29 of the leap year and Jul 5 of the first year
MonthDays(y) ==
    IF IsLeap(y) THEN {229, 704}
    ELSE IF y = 1987 THEN {704, 705}
    ELSE {704}

DateKeys == UNION { {y * 10000 + md : md \in MonthDays(y)} : y \in Years }

\* the values a day can have, by parameter of the service
Weather ==
    { [T2M |-> 5,  PRECTOTCORR |-> 20, WS10M |-> 15, ALLSKY_SFC_UV_INDEX |-> 1, RH2M |-> 90],
      [T2M |-> 32, PRECTOTCORR |-> 10, WS10M |-> 10, ALLSKY_SFC_UV_INDEX |-> 3, RH2M |-> 80],
      [T2M |-> 80, PRECTOTCORR |-> 0,  WS10M |-> 30, ALLSKY_SFC_UV_INDEX |-> 9, RH2M |-> 100],
      [T2M |-> 22, PRECTOTCORR |-> 0,  WS10M |-> 0,  ALLSKY_SFC_UV_INDEX |-> -999, RH2M |-> -999] }

\* the sorted sequence of a set of integers
RECURSIVE Sorted(_)
Sorted(S) ==
    IF S = {} THEN <<>>
    ELSE LET m == CHOOSE x \in S : \A y \in S : x <= y
         IN  <<m>> \o Sorted(S \ {m})

\* the payloads of a well-formed answer: one entry per day served, in date order
Payloads ==
    UNION { { [i \in 1..Len(Sorted(D)) |-> [date |-> Sorted(D)[i], values |-> w[Sorted(D)[i]]]]
              : w \in [D -> Weather] }
            : D \in {X \in SUBSET DateKeys : Cardinality(X) <= MaxRows} }

Parameters == {"T2M", "PRECTOTCORR", "WS10M", "ALLSKY_SFC_UV_INDEX", "RH2M"}

\* what the service can answer: no connection, an HTTP error status, a JSON
\* body lacking a parameter, or a well-formed body
Answers ==
    { [kind |-> "network_error"], [kind |-> "http_error"] }
    \cup { [kind |-> "ok", parameters |-> Parameters \ {"RH2M"}, days |-> <<>>] }
    \cup { [kind |-> "ok", parameters |-> Parameters, days |-> p] : p \in Payloads }

\* pd.to_datetime of a YYYYMMDD key
ToDatetime(k) == [year |-> k \div 10000, month |-> (k \div 100) % 100, day |-> k % 100]

\* the body of fetch_weather: the frame it returns and whether it called st.error
FetchBody(answer) ==
    IF answer.kind # "ok" \/ ~(Parameters \subseteq answer.parameters)
    THEN [frame |-> EmptyFrame, error |-> TRUE]
    ELSE [frame |->
            [cols |-> {"date", "temperature", "precip", "windspeed", "solar_uv", "humidity"},
             rows |-> [i \in 1..Len(answer.days) |->
                         [date        |-> ToDatetime(answer.days[i].date),
                          temperature |-> answer.days[i].values.T2M,
                          precip      |-> answer.days[i].values.PRECTOTCORR,
                          windspeed   |-> answer.days[i].values.WS10M,
                          solar_uv    |-> answer.days[i].values.ALLSKY_SFC_UV_INDEX,
                          humidity    |-> answer.days[i].values.RH2M]]],
          error |-> FALSE]

---------------------------------------------------------------------------
(* analyze_conditions *)

\* (mask).mean() * 100
Percent(mask) == RMul(BoolMean(mask), RInt(100))

\* a slip of line 45: >= for >
PctHotInclusive(sub, hot) ==
    Percent([i \in 1..Len(sub.rows) |-> sub.rows[i]["temperature"] >= hot])

\* line 45: (subset["temperature"] > hot).mean() * 100
PctHot(sub, hot) ==
    Percent([i \in 1..Len(sub.rows) |-> sub.rows[i]["temperature"] > hot])

\* line 46: (subset["temperature"] < cold).mean() * 100
PctCold(sub, cold) ==
    Percent([i \in 1..Len(sub.rows) |-> sub.rows[i]["temperature"] < cold])

\* a slip of line 47: < for >
PctWindyBelow(sub, wind) ==
    Percent([i \in 1..Len(sub.rows) |-> sub.rows[i]["windspeed"] < wind])

\* line 47: (subset["windspeed"] > wind).mean() * 100
PctWindy(sub, wind) ==
    Percent([i \in 1..Len(sub.rows) |-> sub.rows[i]["windspeed"] > wind])

\* line 48: (subset["precip"] > rain).mean() * 100
PctWet(sub, rain) ==
    Percent([i \in 1..Len(sub.rows) |-> sub.rows[i]["precip"] > rain])

\* a slip of lines 49-52: the hot and the cold percentage added up
PctUncomfortableSum(sub, hot, cold, humidity) ==
    RAdd(PctHot(sub, hot), PctCold(sub, cold))

\* lines 49-52: ((temperature > hot) | (temperature < cold)) & (humidity > humidity)
PctUncomfortable(sub, hot, cold, humidity) ==
    Percent([i \in 1..Len(sub.rows) |->
               (sub.rows[i]["temperature"] > hot \/ sub.rows[i]["temperature"] < cold)
               /\ sub.rows[i]["humidity"] > humidity])

\* a slip of lines 59-63: the weight of the wind on the humidity
RawComfortWeights(avg_temperature, avg_humidity, avg_windspeed) ==
    RSub(RInt(100),
         RAdd(RAdd(RMul(RAbs(RSub(avg_temperature, RInt(22))), RInt(2)),
                   RMul(avg_humidity, Rat(15, 10))),
              RMul(avg_windspeed, Rat(15, 10))))

\* lines 59-63: the comfort value before clamping
RawComfort(avg_temperature, avg_humidity, avg_windspeed) ==
    RSub(RInt(100),
         RAdd(RAdd(RMul(RAbs(RSub(avg_temperature, RInt(22))), RInt(2)),
                   RMul(avg_humidity, Rat(3, 10))),
              RMul(avg_windspeed, Rat(15, 10))))

\* a slip of line 64: the upper clamp left out
ClampBelowOnly(comfort) == PyMax(RInt(0), comfort)

\* line 64: max(0, min(100, comfort))
Clamp(comfort) == PyMax(RInt(0), PyMin(RInt(100), comfort))

\* the ten entries of `results`; the four labels that embed a threshold are
\* the fields hot, cold, windy and wet
Results(sub, a) ==
    LET avg_temperature == Mean(Column(sub, "temperature"))
        avg_rainfall    == Mean(Column(sub, "precip"))
        avg_windspeed   == Mean(Column(sub, "windspeed"))
        avg_humidity    == Mean(Column(sub, "humidity"))
    IN  [hot             |-> PctHot(sub, a.hot),
         cold            |-> PctCold(sub, a.cold),
         windy           |-> PctWindy(sub, a.wind),
         wet             |-> PctWet(sub, a.rain),
         uncomfortable   |-> PctUncomfortable(sub, a.hot, a.cold, a.humidity),
         avg_temperature |-> avg_temperature,
         avg_rainfall    |-> avg_rainfall,
         avg_windspeed   |-> avg_windspeed,
         avg_humidity    |-> avg_humidity,
         comfort         |-> Clamp(RawComfort(avg_temperature, avg_humidity, avg_windspeed))]

\* the frame after line 39: the columns month and day added in place
WithMonthDay(f) ==
    LET date == Column(f, "date")
    IN  SetColumn(SetColumn(f, "month", [i \in 1..Len(date) |-> date[i].month]),
                  "day", [i \in 1..Len(date) |-> date[i].day])

\* a slip of line 40: the day left out of the mask
DaySubsetMonthOnly(f, month, day) ==
    Where(f, [i \in 1..Len(f.rows) |-> f.rows[i]["month"] = month])

\* line 40: the rows of the day
DaySubset(f, month, day) ==
    Where(f, [i \in 1..Len(f.rows) |-> f.rows[i]["month"] = month /\ f.rows[i]["day"] = day])

\* a call analyze_conditions(f, month, day, hot, cold, wind, rain, humidity):
\* the frame f afterwards, the local subset, and the outcome
AnalyzeConditions(f, a) ==
    IF "date" \notin f.cols
    THEN [frame |-> f, subset |-> None,
          out |-> [raised |-> "KeyError"]]
    ELSE LET f1  == WithMonthDay(f)
             sub == DaySubset(f1, a.month, a.day)
         IN  IF IsEmpty(sub)
             THEN [frame |-> f1, subset |-> sub,
                   out |-> [results |-> None, subset |-> None]]
             ELSE [frame |-> f1, subset |-> sub,
                   out |-> [results |-> Results(sub, a), subset |-> sub]]

---------------------------------------------------------------------------
(* Calls *)

NoEntry == [cached |-> FALSE]

\* fetch_weather under @st.cache_data: the body runs on a miss and its result
\* is stored; every call hands out a copy of the stored value
FetchWeather(store, answer) == IF store = NoEntry THEN FetchBody(answer) ELSE store

\* (month, day) of the dates asked about
Targets == { [month |-> 7, day |-> 4], [month |-> 2, day |-> 29] }

\* the values the sliders start with
HotDefault      == 35
ColdDefault     == 5
WindDefault     == 10
RainDefault     == 10
HumidityDefault == 80

HotValues      == {22, HotDefault}
ColdValues     == {ColdDefault, 30}
WindValues     == {WindDefault, 20}
RainValues     == {0, RainDefault}
HumidityValues == {HumidityDefault, 95}

\* the thresholds tried: every pair of temperature thresholds (the inverted
\* hot < cold included) with the other three as the sliders start, and each
\* of the other three moved alone
Thresholds ==
    { t \in [hot : HotValues, cold : ColdValues, wind : WindValues,
             rain : RainValues, humidity : HumidityValues] :
        Cardinality({ k \in {"wind", "rain", "humidity"} :
                        t[k] # [wind |-> WindDefault, rain |-> RainDefault,
                                humidity |-> HumidityDefault][k] })
        + (IF t.hot # HotDefault \/ t.cold # ColdDefault THEN 1 ELSE 0) <= 1 }

\* the argument lists of analyze_conditions
ArgLists ==
    { [month |-> d.month, day |-> d.day, hot |-> t.hot, cold |-> t.cold,
       wind |-> t.wind, rain |-> t.rain, humidity |-> t.humidity]
      : d \in Targets, t \in Thresholds }

\* the argument lists the page can produce: the sliders of lines 145-149
SliderArgLists ==
    { a \in ArgLists :
        /\ 20 <= a.hot /\ a.hot <= 50
        /\ -20 <= a.cold /\ a.cold <= 20
        /\ 0 <= a.wind /\ a.wind <= 30
        /\ 0 <= a.rain /\ a.rain <= 50
        /\ 0 <= a.humidity /\ a.humidity <= 100 }

Init ==
    /\ world \in Answers
    /\ cache = NoEntry
    /\ df = None
    /\ args \in ArgLists
    /\ subset = None
    /\ ret = None
    /\ ui = {}
    /\ pc = "idle"
    /\ op = "none"

\* df = fetch_weather(lat, lon)
CallFetchWeather ==
    LET got == FetchWeather(cache, world)
    IN  /\ cache' = got
        /\ df' = got.frame
        /\ ui' = IF got.error THEN ui \cup {"error: NASA API error"} ELSE ui
        /\ op' = "fetch_weather"
        /\ UNCHANGED <<world, args, subset, ret, pc>>

\* analyze_conditions(df, month, day, hot, cold, wind, rain, humidity)
CallAnalyzeConditions ==
    /\ df # None
    /\ LET r == AnalyzeConditions(df, args)
       IN  /\ df' = r.frame
           /\ subset' = r.subset
           /\ ret' = r.out
    /\ op' = "analyze_conditions"
    /\ UNCHANGED <<world, cache, args, ui, pc>>

Next == CallFetchWeather \/ CallAnalyzeConditions

\* the two functions called in any order by a client
Spec == Init /\ [][Next]_vars

---------------------------------------------------------------------------
(* The page *)

\* tab1, lines 164-198: results.get(...) and results[...] on what
\* analyze_conditions returned
Tab1(results) ==
    IF results = None
    THEN [raised |-> "AttributeError", shown |-> {"Condition Probabilities Overview"}]
    ELSE [raised |-> "none",
          shown |-> {"Condition Probabilities Overview",
                     IF RLt(RInt(50), results.wet) THEN "WILL RAIN" ELSE "WILL NOT RAIN",
                     "metrics"}]

\* tab2, lines 200-225: subset["date"] on what analyze_conditions returned
Tab2(sub) ==
    IF sub = None
    THEN [raised |-> "TypeError", shown |-> {"Interactive Weather Trends"}]
    ELSE [raised |-> "none", shown |-> {"Interactive Weather Trends", "charts"}]

\* a script run with the check button pressed, lines 155-234
CheckWeather ==
      LET got == FetchWeather(cache, world)
          msgs == IF got.error THEN {"error: NASA API error"} ELSE {}
      IN  /\ cache' = got
          /\ op' = "check_weather"
          /\ IF IsEmpty(got.frame)
             THEN /\ df' = got.frame
                  /\ ui' = msgs \cup {"warning: No data available."}
                  /\ pc' = "done"
                  /\ UNCHANGED <<subset, ret>>
             ELSE LET r  == AnalyzeConditions(got.frame, args)
                      t1 == Tab1(r.out.results)
                      t2 == Tab2(r.out.subset)
                  IN  /\ df' = r.frame
                      /\ subset' = r.subset
                      /\ ret' = r.out
                      /\ IF t1.raised # "none"
                         THEN /\ ui' = msgs \cup t1.shown \cup {"exception: " \o t1.raised}
                              /\ pc' = "exception"
                         ELSE IF t2.raised # "none"
                         THEN /\ ui' = msgs \cup t1.shown \cup t2.shown
                                          \cup {"exception: " \o t2.raised}
                              /\ pc' = "exception"
                         ELSE /\ ui' = msgs \cup t1.shown \cup t2.shown
                                          \cup {"Location", "Export Report"}
                              /\ pc' = "done"
          /\ UNCHANGED <<world, args>>

\* a script run without the check button: the tabs stay empty, the locals of
\* the last run are gone
Rerun ==
    /\ pc # "idle"
    /\ df' = None /\ subset' = None /\ ret' = None
    /\ ui' = {}
    /\ pc' = "idle"
    /\ op' = "rerun"
    /\ UNCHANGED <<world, cache, args>>

NextApp == CheckWeather \/ Rerun

\* the page: the thresholds are those the sliders allow
InitApp == Init /\ args \in SliderArgLists

SpecApp == InitApp /\ [][NextApp]_vars

---------------------------------------------------------------------------
(* Properties *)

\* analyze_conditions returned a result mapping
HasResult == ret # None /\ "results" \in DOMAIN ret /\ ret.results # None

\* what analyze_conditions returns for an empty DaySubset: (None, None)
Sentinel == [results |-> None, subset |-> None]

\* the rational x is 100 * k / n
IsPct(x, k, n) == x.num * n = 100 * k * x.den

\* the rational x lies in [0, 100]
InRange(x) == 0 <= x.num /\ x.num <= 100 * x.den

\* C1: whenever analyze_conditions returns a result mapping, whatever the
\* thresholds (hot < cold included), its five percentages and its Comfort
\* Index lie in [0, 100].
C1_RangeInvariant ==
    HasResult =>
        \A k \in {"hot", "cold", "windy", "wet", "uncomfortable", "comfort"} :
            InRange(ret.results[k])

\* a result under inverted thresholds whose raw comfort value lay above 100
C1_Witness ==
    /\ HasResult
    /\ args.hot < args.cold
    /\ ret.results.cold.num > 0
    /\ ret.results.avg_humidity.num < 0
    /\ ret.results.comfort = [num |-> 100, den |-> 1]

\* no record of the frame analyze_conditions was given is of the day asked
NoRecordMatches ==
    \A i \in 1..Len(df.rows) :
        ~(df.rows[i]["date"].month = args.month /\ df.rows[i]["date"].day = args.day)

\* C2: after a call of analyze_conditions on a TimeSeries none of whose
\* records is of the day asked, the call has returned the sentinel (None,
\* None); if some record is of the day it has returned a result mapping,
\* which differs from the sentinel.
C2_NoMatchGivesSentinel ==
    op = "analyze_conditions" =>
        /\ NoRecordMatches => ret = Sentinel
        /\ ~NoRecordMatches => HasResult /\ ret # Sentinel

\* the messages the page shows in place of results
Messages == {"warning: No data available.", "error: NASA API error"}

\* C3: a script run with the check button pressed never ends in an
\* exception: it ends showing the metrics of a result mapping or showing a
\* message.
C3_FlowNeverFatal ==
    op = "check_weather" =>
        /\ pc = "done"
        /\ IF HasResult THEN "metrics" \in ui ELSE ui \cap Messages # {}

\* the service failed: no connection, an HTTP error status or a body lacking
\* a parameter
SourceFailed == world.kind # "ok" \/ ~(Parameters \subseteq world.parameters)

\* C4: when the service fails, fetch_weather returns the empty frame, and
\* analyze_conditions given that frame returns the sentinel (None, None)
\* rather than raising.
C4_FailedFetchIsNoData ==
    SourceFailed =>
        /\ op = "fetch_weather" => df = EmptyFrame
        /\ op = "analyze_conditions" => ret = Sentinel

\* C5: the Very Uncomfortable percentage of a result mapping is 100 times
\* the number of returned records with (temperature > hot or temperature <
\* cold) and humidity > humidity threshold, over the number of returned
\* records.
C5_JointCondition ==
    HasResult =>
        LET rows == ret.subset.rows
            k == Cardinality({ i \in 1..Len(rows) :
                     /\ rows[i]["temperature"] > args.hot
                        \/ rows[i]["temperature"] < args.cold
                     /\ rows[i]["humidity"] > args.humidity })
        IN  IsPct(ret.results.uncomfortable, k, Len(rows))

\* a result with hot days, cold days and uncomfortable days whose Very
\* Uncomfortable percentage is not the sum of the hot and cold percentages
C5_Witness ==
    /\ HasResult
    /\ ret.results.hot.num > 0
    /\ ret.results.cold.num > 0
    /\ ret.results.uncomfortable.num > 0
    /\ ret.results.uncomfortable.num * ret.results.hot.den * ret.results.cold.den
         # (ret.results.hot.num * ret.results.cold.den
            + ret.results.cold.num * ret.results.hot.den) * ret.results.uncomfortable.den

\* C6: each single-field percentage of a result mapping is 100 times the
\* number of returned records that satisfy the strict inequality on that
\* field alone, over the number of returned records.
C6_StrictExceedance ==
    HasResult =>
        LET rows == ret.subset.rows
            n == Len(rows)
        IN  /\ IsPct(ret.results.hot,
                     Cardinality({i \in 1..n : rows[i]["temperature"] > args.hot}), n)
            /\ IsPct(ret.results.cold,
                     Cardinality({i \in 1..n : rows[i]["temperature"] < args.cold}), n)
            /\ IsPct(ret.results.windy,
                     Cardinality({i \in 1..n : rows[i]["windspeed"] > args.wind}), n)
            /\ IsPct(ret.results.wet,
                     Cardinality({i \in 1..n : rows[i]["precip"] > args.rain}), n)

\* a result over three records, one of them with its temperature on the hot
\* threshold and one with its windspeed on the wind threshold, neither
\* percentage being 0 or 100
C6_Witness ==
    /\ HasResult
    /\ Len(ret.subset.rows) = 3
    /\ \E i \in 1..3 : ret.subset.rows[i]["temperature"] = args.hot
    /\ \E i \in 1..3 : ret.subset.rows[i]["windspeed"] = args.wind
    /\ ret.results.hot.num > 0 /\ ret.results.hot.num < 100 * ret.results.hot.den
    /\ ret.results.windy.num > 0 /\ ret.results.windy.num < 100 * ret.results.windy.den

\* 10 * n times the comfort value before clamping, n the number of returned
\* records: 1000 n - (20 |sum T - 22 n| + 3 sum H + 15 sum W)
RawTimes10N ==
    LET rows == ret.subset.rows
        n == Len(rows)
        sumT == SumSeq([i \in 1..n |-> rows[i]["temperature"]])
        sumH == SumSeq([i \in 1..n |-> rows[i]["humidity"]])
        sumW == SumSeq([i \in 1..n |-> rows[i]["windspeed"]])
    IN  1000 * n - (20 * Abs(sumT - 22 * n) + 3 * sumH + 15 * sumW)

\* C7: the Comfort Index of a result mapping is 100 - (|avg_temperature -
\* 22| * 2 + avg_humidity * 0.3 + avg_windspeed * 1.5) clamped to [0, 100]:
\* 0 when the raw value is below 0, 100 when it is above 100, the raw value
\* otherwise; averages 32 / 80 / 10 give 41 and 80 / 100 / 30 give 0.
C7_ComfortClamped ==
    HasResult =>
        LET n == Len(ret.subset.rows)
            c == ret.results.comfort
            avgs == <<ret.results.avg_temperature, ret.results.avg_humidity,
                      ret.results.avg_windspeed>>
            one(v) == [num |-> v, den |-> 1]
        IN  /\ RawTimes10N < 0 => c = one(0)
            /\ RawTimes10N > 1000 * n => c = one(100)
            /\ (0 <= RawTimes10N /\ RawTimes10N <= 1000 * n)
                   => c.num * 10 * n = RawTimes10N * c.den
            /\ avgs = <<one(32), one(80), one(10)>> => c = one(41)
            /\ avgs = <<one(80), one(100), one(30)>> => c = one(0)

\* a result whose averages are 32 / 80 / 10 and whose Comfort Index is 41
C7_Witness ==
    /\ HasResult
    /\ ret.results.avg_temperature = [num |-> 32, den |-> 1]
    /\ ret.results.avg_humidity = [num |-> 80, den |-> 1]
    /\ ret.results.avg_windspeed = [num |-> 10, den |-> 1]
    /\ ret.results.comfort = [num |-> 41, den |-> 1]

\* a result whose raw comfort value lay below 0
C7_WitnessBelow == HasResult /\ RawTimes10N < 0

\* a result whose raw comfort value lay above 100
C7_WitnessAbove == HasResult /\ RawTimes10N > 1000 * Len(ret.subset.rows)

\* the positions, in the TimeSeries as fetched, of the records of the day asked
MatchingPositions ==
    { i \in 1..Len(cache.frame.rows) :
        /\ cache.frame.rows[i]["date"].month = args.month
        /\ cache.frame.rows[i]["date"].day = args.day }

\* the j-th smallest element of the set S of integers
Nth(S, j) == CHOOSE i \in S : Cardinality({k \in S : k < i}) = j - 1

\* C8: the DaySubset analyze_conditions computes holds, in the order of the
\* TimeSeries as fetched, exactly the records of that TimeSeries whose month
\* and day are those asked; when it is not empty it is the DaySubset
\* returned, and when no record is of the day asked it is empty.
C8_ExactSelection ==
    subset # None =>
        /\ Len(subset.rows) = Cardinality(MatchingPositions)
        /\ \A j \in 1..Len(subset.rows) :
               \A c \in cache.frame.cols :
                   subset.rows[j][c] = cache.frame.rows[Nth(MatchingPositions, j)][c]
        /\ HasResult => ret.subset = subset
        /\ MatchingPositions = {} => subset.rows = <<>>

\* a DaySubset of two records out of a TimeSeries of three, whose records are
\* of different years and whose third record is of the same month
C8_Witness ==
    /\ HasResult
    /\ Len(cache.frame.rows) = 3
    /\ Len(subset.rows) = 2
    /\ subset.rows[1]["date"].year < subset.rows[2]["date"].year
    /\ \E i \in 1..3 : /\ cache.frame.rows[i]["date"].month = args.month
                       /\ cache.frame.rows[i]["date"].day # args.day

\* an empty DaySubset out of a TimeSeries that has records, none on Feb 29
C8_WitnessEmpty ==
    /\ subset # None
    /\ subset.rows = <<>>
    /\ Len(cache.frame.rows) = 3
    /\ args.month = 2 /\ args.day = 29

\* the thresholds the percentages are compared at: every value of the
\* records and every threshold tried
Probes ==
    UNION { {w.T2M, w.PRECTOTCORR, w.WS10M} : w \in Weather }
    \cup HotValues \cup ColdValues \cup WindValues \cup RainValues

\* C9: against the percentages of a result mapping, the same DaySubset at a
\* higher hot, wind or rain threshold gives no higher hot, windy or wet
\* percentage and at a lower one no lower; at a higher cold threshold it
\* gives no lower cold percentage and at a lower one no higher.
C9_Monotone ==
    HasResult =>
        \A t \in Probes :
            /\ t >= args.hot  => RLe(PctHot(ret.subset, t), ret.results.hot)
            /\ t <= args.hot  => RLe(ret.results.hot, PctHot(ret.subset, t))
            /\ t >= args.wind => RLe(PctWindy(ret.subset, t), ret.results.windy)
            /\ t <= args.wind => RLe(ret.results.windy, PctWindy(ret.subset, t))
            /\ t >= args.rain => RLe(PctWet(ret.subset, t), ret.results.wet)
            /\ t <= args.rain => RLe(ret.results.wet, PctWet(ret.subset, t))
            /\ t >= args.cold => RLe(ret.results.cold, PctCold(ret.subset, t))
            /\ t <= args.cold => RLe(PctCold(ret.subset, t), ret.results.cold)

\* a result whose hot and windy percentages fall at some higher threshold
\* and whose cold percentage rises at some higher cold threshold
C9_Witness ==
    /\ HasResult
    /\ \E t \in Probes : t > args.hot /\ RLt(PctHot(ret.subset, t), ret.results.hot)
    /\ \E t \in Probes : t > args.wind /\ RLt(PctWindy(ret.subset, t), ret.results.windy)
    /\ \E t \in Probes : t > args.cold /\ RLt(ret.results.cold, PctCold(ret.subset, t))

\* C10: a call of analyze_conditions leaves the frame it is given as it was
\* (same columns, same rows), and a call repeated with the same arguments
\* returns what the call before returned.
C10_Pure ==
    [][op' = "analyze_conditions" =>
          /\ df' = df
          /\ op = "analyze_conditions" => ret' = ret]_vars

====
